---- MODULE Spec2Model ----
(***************************************************************************)
(* Model of module/PiCamera/pi_cam.py: the PiCamV1_3 session (parameter    *)
(* dispatch, setters and getters, capture and record) and the              *)
(* VideoResolution value class.                                            *)
(*                                                                         *)
(* Python values are encoded as tuples of integers: the int n is <<n>>,    *)
(* the tuple (a, b) is <<a, b>> and an attribute this program never wrote  *)
(* on the handle is Unset.  What a call returns is a string: "None",       *)
(* "True", "False", the name of the exception it raised, or "value" with   *)
(* the returned value itself in retval.  Frame rates are in tenths of a    *)
(* frame per second, so that 42.1 is 421.                                  *)
(***************************************************************************)
EXTENDS Integers, Sequences, FiniteSets, TLC

VARIABLES pc, kwargs, camera, recording, video_resolutions, call, ret,
          retval, handle_calls, last_write, vr

vars == <<pc, kwargs, camera, recording, video_resolutions, call, ret,
          retval, handle_calls, last_write, vr>>

(***************************************************************************)
(* Bounds and input sets                                                   *)
(***************************************************************************)
MaxKwargs == 2

Unset == <<>>

Names == {"resolution", "brightness", "contrast",
          "stereo_decimate", "stereo_mode", "bogus_setting", "iso"}

Values == {<<7>>, <<55>>}

Pixels == {<<640>>, <<480>>}

Seconds == {10, 1}

Times == {<<1, 2, 3, 4, 5>>, <<12, 31, 23, 59, 50>>}

Exceptions == {"TypeError", "NameError"}

\* keyword arguments of length n with pairwise distinct keys
KwargsOfLen(n) ==
    {s \in [1..n -> Names \X Values] :
        \A i \in 1..n : \A j \in 1..n : (i # j) => (s[i][1] # s[j][1])}

KwargsSet == UNION {KwargsOfLen(n) : n \in 0..MaxKwargs}

(***************************************************************************)
(* The module's names                                                      *)
(***************************************************************************)
\* names bound at module level (imports, classes, functions)
ModuleGlobals == {"time", "strftime", "localtime", "PiCamera", "PiCamV1_3",
                  "pi_camera_factory", "VideoResolution",
                  "PiCameraConfigurationHandler"}

defined_settings == [resolution |-> "set_resolution",
                     brightness |-> "set_brightness",
                     contrast   |-> "set_contrast"]

unsupported_settings_one == {"stereo_decimate"}

unsupported_settings == {"stereo_decimate", "stereo_mode"}

(***************************************************************************)
(* time.strftime("%m-%d-%H:%M:%S") of the time <<month, day, h, m, s>>     *)
(***************************************************************************)
Digit == <<"0", "1", "2", "3", "4", "5", "6", "7", "8", "9">>

TwoDigits(n) == Digit[(n \div 10) + 1] \o Digit[(n % 10) + 1]

strftime(t) == TwoDigits(t[1]) \o "-" \o TwoDigits(t[2]) \o "-" \o
               TwoDigits(t[3]) \o ":" \o TwoDigits(t[4]) \o ":" \o
               TwoDigits(t[5])

generate_path(prefix, extension, t) == prefix \o strftime(t) \o extension

(***************************************************************************)
(* Setters: each returns the handle's attributes after the call and what   *)
(* the call returned (no setter has a return statement)                    *)
(***************************************************************************)
set_resolution(cam, x, y) ==
    [camera |-> [cam EXCEPT !["resolution"] = x \o y], ret |-> "None"]

set_brightness(cam, value) ==
    [camera |-> [cam EXCEPT !["brightness"] = value], ret |-> "None"]

set_contrast_swapped(cam, value) ==
    [camera |-> [cam EXCEPT !["brightness"] = value], ret |-> "None"]

set_contrast(cam, value) ==
    [camera |-> [cam EXCEPT !["contrast"] = value], ret |-> "None"]

\* self.defined_settings[k](v): the registered bound method called with the
\* one positional argument v; set_resolution(self, x, y) needs two
CallSetter(setter, cam, v) ==
    CASE setter = "set_resolution" -> [camera |-> cam, ret |-> "TypeError"]
      [] setter = "set_brightness" -> set_brightness(cam, v)
      [] setter = "set_contrast"   -> set_contrast(cam, v)

set_param_dropped(cam, k, v) ==
    IF k \in DOMAIN defined_settings
    THEN CallSetter(defined_settings[k], cam, v)
    ELSE IF k \in unsupported_settings
         THEN [camera |-> cam, ret |-> "False"]
         ELSE [camera |-> cam, ret |-> "True"]

set_param(cam, k, v) ==
    IF k \in DOMAIN defined_settings
    THEN CallSetter(defined_settings[k], cam, v)
    ELSE IF k \in unsupported_settings
         THEN [camera |-> cam, ret |-> "False"]
         ELSE [camera |-> [cam EXCEPT ![k] = v], ret |-> "True"]

\* the value a call that returned normally wrote under name k
Written(lw, k, v, r) ==
    IF r \in {"True", "None"} THEN [lw EXCEPT ![k] = v] ELSE lw

(***************************************************************************)
(* VideoResolution                                                         *)
(***************************************************************************)
allowed_video_resolutions == <<
    <<"2592", "1944">>,
    <<"1296", "972">>,
    <<"1296", "730">>,
    <<"640", "480">>,
    <<"640", "480">>,
    <<"1920", "1080">> >>

allowed_frame_rates_ranges == <<
    <<10, 150>>,
    <<10, 420>>,
    <<10, 490>>,
    <<421, 600>>,
    <<601, 900>>,
    <<10, 300>> >>

\* the dict built for row i (0-based, as in the source)
Param(i) ==
    [width  |-> allowed_video_resolutions[i + 1][1],
     height |-> allowed_video_resolutions[i + 1][2],
     aspect_frame_rate_min |-> allowed_frame_rates_ranges[i + 1][1],
     aspect_frame_rate_max |-> allowed_frame_rates_ranges[i + 1][2]]

\* VideoResolution.__init__(self, **kwargs) called with the positional
\* arguments args and the keyword arguments kw: it takes no positional one
VideoResolution_init(args, kw) ==
    IF Len(args) > 0
    THEN [ret |-> "TypeError"]
    ELSE [ret |-> "None", obj |-> kw]

valid_frame_rate_inclusive(self, fps) ==
    IF self.aspect_frame_rate_min <= fps /\ fps <= self.aspect_frame_rate_max
    THEN "True" ELSE "False"

valid_frame_rate(self, fps) ==
    IF self.aspect_frame_rate_min <= fps /\ fps < self.aspect_frame_rate_max
    THEN "True" ELSE "False"

RECURSIVE instantiate_loop(_, _)
instantiate_loop(i, vrs) ==
    IF i >= Len(allowed_video_resolutions)
    THEN [video_resolutions |-> vrs, ret |-> "None"]
    ELSE LET r == VideoResolution_init(<<Param(i)>>, <<>>)
         IN  IF r.ret \in Exceptions
             THEN [video_resolutions |-> vrs, ret |-> r.ret]
             ELSE instantiate_loop(i + 1, Append(vrs, r.obj))

instantiate_resolutions(vrs) == instantiate_loop(1, vrs)

(***************************************************************************)
(* Initial state: PiCamV1_3.__init__ up to its loop over kwargs            *)
(***************************************************************************)
Init ==
    /\ kwargs \in KwargsSet
    /\ pc = IF kwargs = <<>> THEN "ready" ELSE "init"
    /\ camera = [n \in Names |-> Unset]
    /\ recording = FALSE
    /\ video_resolutions = <<>>
    /\ call = [op |-> "__init__"]
    /\ ret = "None"
    /\ retval = Unset
    /\ handle_calls = <<>>
    /\ last_write = [n \in Names |-> Unset]
    /\ vr = Param(0)

(***************************************************************************)
(* One iteration of "for k, v in kwargs.items(): self.set_param(k, v)".    *)
(* ret is what that set_param returned (the constructor drops it); an      *)
(* exception leaves the constructor, and no session exists.                *)
(***************************************************************************)
ConstructStep ==
    /\ pc = "init"
    /\ kwargs # <<>>
    /\ LET k == Head(kwargs)[1]
           v == Head(kwargs)[2]
           r == set_param(camera, k, v)
       IN  /\ camera' = r.camera
           /\ ret' = r.ret
           /\ last_write' = Written(last_write, k, v, r.ret)
           /\ call' = [op |-> "set_param", k |-> k, v |-> v, ctor |-> TRUE]
           /\ IF r.ret \in Exceptions
              THEN pc' = "failed" /\ kwargs' = <<>>
              ELSE /\ kwargs' = Tail(kwargs)
                   /\ pc' = IF Tail(kwargs) = <<>> THEN "ready" ELSE "init"
    /\ retval' = Unset
    /\ UNCHANGED <<recording, video_resolutions, handle_calls, vr>>

SetParam(k, v) ==
    /\ pc = "ready"
    /\ LET r == set_param(camera, k, v)
       IN  /\ camera' = r.camera
           /\ ret' = r.ret
           /\ last_write' = Written(last_write, k, v, r.ret)
    /\ call' = [op |-> "set_param", k |-> k, v |-> v, ctor |-> FALSE]
    /\ retval' = Unset
    /\ handle_calls' = <<>>
    /\ UNCHANGED <<pc, kwargs, recording, video_resolutions, vr>>

SetResolution(x, y) ==
    /\ pc = "ready"
    /\ LET r == set_resolution(camera, x, y)
       IN  /\ camera' = r.camera
           /\ ret' = r.ret
           /\ last_write' = Written(last_write, "resolution", x \o y, r.ret)
    /\ call' = [op |-> "set_resolution", x |-> x, y |-> y]
    /\ retval' = Unset
    /\ handle_calls' = <<>>
    /\ UNCHANGED <<pc, kwargs, recording, video_resolutions, vr>>

SetBrightness(v) ==
    /\ pc = "ready"
    /\ LET r == set_brightness(camera, v)
       IN  /\ camera' = r.camera
           /\ ret' = r.ret
           /\ last_write' = Written(last_write, "brightness", v, r.ret)
    /\ call' = [op |-> "set_brightness", v |-> v]
    /\ retval' = Unset
    /\ handle_calls' = <<>>
    /\ UNCHANGED <<pc, kwargs, recording, video_resolutions, vr>>

SetContrast(v) ==
    /\ pc = "ready"
    /\ LET r == set_contrast(camera, v)
       IN  /\ camera' = r.camera
           /\ ret' = r.ret
           /\ last_write' = Written(last_write, "contrast", v, r.ret)
    /\ call' = [op |-> "set_contrast", v |-> v]
    /\ retval' = Unset
    /\ handle_calls' = <<>>
    /\ UNCHANGED <<pc, kwargs, recording, video_resolutions, vr>>

GetBrightness ==
    /\ pc = "ready"
    /\ call' = [op |-> "get_brightness"]
    /\ ret' = "value"
    /\ retval' = camera["brightness"]
    /\ handle_calls' = <<>>
    /\ UNCHANGED <<pc, kwargs, camera, recording, video_resolutions,
                   last_write, vr>>

GetContrast ==
    /\ pc = "ready"
    /\ call' = [op |-> "get_contrast"]
    /\ ret' = "value"
    /\ retval' = camera["contrast"]
    /\ handle_calls' = <<>>
    /\ UNCHANGED <<pc, kwargs, camera, recording, video_resolutions,
                   last_write, vr>>

(***************************************************************************)
(* Capture                                                                 *)
(***************************************************************************)
Formats == {"None", "png"}

Resizes == {<<>>, <<320, 240>>}

Ports == {0, 1}

OptionSets == {{}, {<<"quality", 85>>}}

Outputs == {"out.jpg"}

\* the call manual_capture makes on the handle: of its own parameters only
\* output and **options reach it, the rest are the literals of the source
manual_capture(output, format, use_video_port, resize, splitter_port, bayer, options) ==
    [m |-> "capture", output |-> output, format |-> "None",
     use_video_port |-> FALSE, resize |-> <<>>, splitter_port |-> 0,
     bayer |-> FALSE, options |-> options]

\* capture(self) at time t: the bare name generate_path is looked up in the
\* module's globals before manual_capture is called
capture(t) ==
    IF "generate_path" \in ModuleGlobals
    THEN [ret |-> "None",
          calls |-> <<manual_capture(generate_path("pic", ".jpg", t),
                                     "None", FALSE, <<>>, 0, FALSE, {})>>]
    ELSE [ret |-> "NameError", calls |-> <<>>]

ManualCapture(output, format, use_video_port, resize, splitter_port, bayer, options) ==
    /\ pc = "ready"
    /\ call' = [op |-> "manual_capture", output |-> output,
                format |-> format, use_video_port |-> use_video_port,
                resize |-> resize, splitter_port |-> splitter_port,
                bayer |-> bayer, options |-> options]
    /\ handle_calls' = <<manual_capture(output, format, use_video_port,
                                        resize, splitter_port, bayer,
                                        options)>>
    /\ ret' = "None"
    /\ retval' = Unset
    /\ UNCHANGED <<pc, kwargs, camera, recording, video_resolutions,
                   last_write, vr>>

Capture(t) ==
    /\ pc = "ready"
    /\ call' = [op |-> "capture", t |-> t]
    /\ handle_calls' = capture(t).calls
    /\ ret' = capture(t).ret
    /\ retval' = Unset
    /\ UNCHANGED <<pc, kwargs, camera, recording, video_resolutions,
                   last_write, vr>>

(***************************************************************************)
(* record(recording_seconds): three calls on the handle, the second of     *)
(* which blocks; ret is "pending" until record returns                     *)
(***************************************************************************)
RecordStart(recording_seconds, t) ==
    /\ pc = "ready"
    /\ call' = [op |-> "record", recording_seconds |-> recording_seconds,
                t |-> t]
    /\ handle_calls' = <<[m |-> "start_recording",
                          output |-> "vid" \o strftime(t) \o ".h264",
                          quality |-> 100]>>
    /\ recording' = TRUE
    /\ pc' = "record_wait"
    /\ ret' = "pending"
    /\ retval' = Unset
    /\ UNCHANGED <<kwargs, camera, video_resolutions, last_write, vr>>

RecordWait ==
    /\ pc = "record_wait"
    /\ handle_calls' = Append(handle_calls,
                              [m |-> "wait_recording",
                               timeout |-> call.recording_seconds])
    /\ pc' = "record_stop"
    /\ UNCHANGED <<kwargs, camera, recording, video_resolutions, call, ret,
                   retval, last_write, vr>>

RecordStop_missing ==
    /\ pc = "record_stop"
    /\ pc' = "ready"
    /\ ret' = "None"
    /\ UNCHANGED <<kwargs, camera, recording, video_resolutions, call,
                   retval, handle_calls, last_write, vr>>

RecordStop ==
    /\ pc = "record_stop"
    /\ handle_calls' = Append(handle_calls, [m |-> "stop_recording"])
    /\ recording' = FALSE
    /\ pc' = "ready"
    /\ ret' = "None"
    /\ UNCHANGED <<kwargs, camera, video_resolutions, call, retval,
                   last_write, vr>>

InstantiateResolutions ==
    /\ pc = "ready"
    /\ call' = [op |-> "instantiate_resolutions"]
    /\ video_resolutions' =
           instantiate_resolutions(video_resolutions).video_resolutions
    /\ ret' = instantiate_resolutions(video_resolutions).ret
    /\ retval' = Unset
    /\ handle_calls' = <<>>
    /\ UNCHANGED <<pc, kwargs, camera, recording, last_write, vr>>

Next ==
    \/ ConstructStep
    \/ \E k \in Names : \E v \in Values : SetParam(k, v)
    \/ \E x \in Pixels : \E y \in Pixels : SetResolution(x, y)
    \/ \E v \in Values : SetBrightness(v)
    \/ \E v \in Values : SetContrast(v)
    \/ GetBrightness
    \/ GetContrast
    \/ \E o \in Outputs : \E f \in Formats : \E u \in BOOLEAN :
       \E rs \in Resizes : \E sp \in Ports : \E b \in BOOLEAN :
       \E opts \in OptionSets : ManualCapture(o, f, u, rs, sp, b, opts)
    \/ \E t \in Times : Capture(t)
    \/ \E s \in Seconds : \E t \in Times : RecordStart(s, t)
    \/ RecordWait
    \/ RecordStop
    \/ InstantiateResolutions

Spec == Init /\ [][Next]_vars

(***************************************************************************)
(* VideoResolution objects built from keyword arguments and asked about    *)
(* frame rates                                                             *)
(***************************************************************************)
Rows == 0..(Len(allowed_video_resolutions) - 1)

Rates == {10, 300}

VRParams ==
    {Param(i) : i \in Rows} \cup
    {[width |-> "640", height |-> "480",
      aspect_frame_rate_min |-> a, aspect_frame_rate_max |-> b] :
        a \in Rates, b \in Rates}

FpsSamples ==
    UNION {{p.aspect_frame_rate_min - 1, p.aspect_frame_rate_min,
            p.aspect_frame_rate_min + 1, p.aspect_frame_rate_max - 1,
            p.aspect_frame_rate_max, p.aspect_frame_rate_max + 1} :
              p \in VRParams}

InitVR ==
    /\ kwargs = <<>>
    /\ pc = "module"
    /\ camera = [n \in Names |-> Unset]
    /\ recording = FALSE
    /\ video_resolutions = <<>>
    /\ call = [op |-> "VideoResolution"]
    /\ ret = "None"
    /\ retval = Unset
    /\ handle_calls = <<>>
    /\ last_write = [n \in Names |-> Unset]
    /\ vr \in {VideoResolution_init(<<>>, p).obj : p \in VRParams}

NewVideoResolution(p) ==
    /\ pc = "module"
    /\ VideoResolution_init(<<>>, p).ret = "None"
    /\ vr' = VideoResolution_init(<<>>, p).obj
    /\ call' = [op |-> "VideoResolution"]
    /\ ret' = "None"
    /\ UNCHANGED <<pc, kwargs, camera, recording, video_resolutions, retval,
                   handle_calls, last_write>>

ValidFrameRate(fps) ==
    /\ pc = "module"
    /\ call' = [op |-> "valid_frame_rate", fps |-> fps]
    /\ ret' = valid_frame_rate(vr, fps)
    /\ UNCHANGED <<pc, kwargs, camera, recording, video_resolutions, retval,
                   handle_calls, last_write, vr>>

NextVR ==
    \/ \E p \in VRParams : NewVideoResolution(p)
    \/ \E fps \in FpsSamples : ValidFrameRate(fps)

SpecVR == InitVR /\ [][NextVR]_vars

(***************************************************************************)
(* Properties                                                              *)
(***************************************************************************)
Blacklist == {"stereo_decimate", "stereo_mode"}

Validated == {"resolution", "brightness", "contrast"}

\* a step that is one call of set_param, in the constructor or directly
SetParamStep == ConstructStep \/ \E k \in Names : \E v \in Values : SetParam(k, v)

\* C1: for every blacklisted name s and every value v, set_param(s, v)
\* returns False and changes no attribute of the camera handle, in the
\* constructor as in a direct call, so that s is never set on the handle.
C1_BlacklistRejected ==
    /\ [](\A s \in Blacklist : camera[s] = Unset)
    /\ [][(SetParamStep /\ call'.k \in Blacklist)
            => (ret' = "False" /\ camera' = camera)]_vars

C1_Witness ==
    /\ call.op = "set_param"
    /\ call.k = "stereo_mode"
    /\ call.ctor
    /\ pc = "ready"
    /\ ret = "False"
    /\ camera["brightness"] = <<55>>
    /\ camera["stereo_mode"] = Unset

\* C2: for every validated name s (resolution, brightness, contrast) and
\* every value v, set_param(s, v) changes exactly the attribute s of the
\* handle to v and leaves every other attribute unchanged.
C2_ValidatedSetterOnly ==
    [][(SetParamStep /\ call'.k \in Validated)
         => camera' = [camera EXCEPT ![call'.k] = call'.v]]_vars

\* C3: for every name s that is neither validated nor blacklisted and every
\* value v, set_param(s, v) assigns v to attribute s of the handle, leaves
\* the other attributes alone and returns True.
C3_Passthrough ==
    [][(SetParamStep /\ call'.k \notin (Validated \cup Blacklist))
         => (ret' = "True" /\ camera' = [camera EXCEPT ![call'.k] = call'.v])]_vars

C3_Witness ==
    /\ call.op = "set_param"
    /\ call.k = "bogus_setting"
    /\ ~call.ctor
    /\ call.v = <<7>>
    /\ ret = "True"
    /\ camera["bogus_setting"] = <<7>>

\* C4: a set_param call that returns gives back a boolean, True exactly when
\* the value was stored on the handle; for brightness and contrast it is True.
C4_ReturnsStoredFlag ==
    (call.op = "set_param" /\ ret \notin Exceptions)
        => /\ ret \in {"True", "False"}
           /\ (ret = "True") <=> (camera[call.k] = call.v)
           /\ (call.k \in {"brightness", "contrast"}) => (ret = "True")

\* C5: the constructor applies its key/value pairs through set_param in
\* insertion order, and at every moment each attribute of the handle holds
\* the value of the last accepted write to that name; constructing with
\* brightness 55 then bogus_setting 7 ends with both on the handle.
Example == << <<"brightness", <<55>> >>, <<"bogus_setting", <<7>> >> >>

C6_CaptureOnce ==
    (call.op = "capture")
        => /\ ret = "None"
           /\ handle_calls =
                <<[m |-> "capture",
                   output |-> "pic" \o strftime(call.t) \o ".jpg",
                   format |-> "None", use_video_port |-> FALSE,
                   resize |-> <<>>, splitter_port |-> 0, bayer |-> FALSE,
                   options |-> {}]>>

\* C7: record(seconds) calls start_recording ("vid" + timestamp + ".h264",
\* quality 100), then wait_recording(seconds), then stop_recording, once
\* each and in this order; stop_recording never precedes start_recording,
\* and when record has returned the handle is not recording.
RecordCalls ==
    <<[m |-> "start_recording",
       output |-> "vid" \o strftime(call.t) \o ".h264", quality |-> 100],
      [m |-> "wait_recording", timeout |-> call.recording_seconds],
      [m |-> "stop_recording"]>>

C7_RecordOrder ==
    /\ (call.op = "record")
         => /\ (pc = "record_wait")
                 => (handle_calls = SubSeq(RecordCalls, 1, 1) /\ recording)
            /\ (pc = "record_stop")
                 => (handle_calls = SubSeq(RecordCalls, 1, 2) /\ recording)
            /\ (pc = "ready")
                 => (handle_calls = RecordCalls /\ ~recording /\ ret = "None")
            /\ (call.t = <<1, 2, 3, 4, 5>>)
                 => (handle_calls[1].output = "vid01-02-03:04:05.h264")
    /\ \A i \in 1..Len(handle_calls) :
         (handle_calls[i].m = "stop_recording")
            => \E j \in 1..(i - 1) : handle_calls[j].m = "start_recording"
    /\ (pc \in {"init", "ready", "failed"}) => ~recording

C7_Witness ==
    /\ call.op = "record"
    /\ pc = "ready"
    /\ ret = "None"
    /\ Len(handle_calls) = 3
    /\ handle_calls[3].m = "stop_recording"
    /\ ~recording

\* C8: instantiate_resolutions() on a fresh session returns normally and
\* leaves video_resolutions with one entry per table row but row 0 (5 for
\* 6 rows), in table order, the entry of row i having the width and height
\* of resolution row i and the frame-rate minimum and maximum of frame-rate
\* row i.
C8_ResolutionsBuilt ==
    (call.op = "instantiate_resolutions")
        => /\ ret = "None"
           /\ Len(video_resolutions) = Len(allowed_video_resolutions) - 1
           /\ \A i \in 1..(Len(allowed_video_resolutions) - 1) :
                /\ video_resolutions[i].width = allowed_video_resolutions[i + 1][1]
                /\ video_resolutions[i].height = allowed_video_resolutions[i + 1][2]
                /\ video_resolutions[i].aspect_frame_rate_min =
                       allowed_frame_rates_ranges[i + 1][1]
                /\ video_resolutions[i].aspect_frame_rate_max =
                       allowed_frame_rates_ranges[i + 1][2]

\* C9: for every VideoResolution with range (min, max) and every fps,
\* valid_frame_rate(fps) is True exactly when min <= fps < max; on a range
\* with min < max, fps = min gives True and fps = max gives False.
C9_ValidFrameRate ==
    (call.op = "valid_frame_rate")
        => /\ (ret = "True") <=> (vr.aspect_frame_rate_min <= call.fps
                                  /\ call.fps < vr.aspect_frame_rate_max)
           /\ ret \in {"True", "False"}
           /\ (vr.aspect_frame_rate_min < vr.aspect_frame_rate_max
               /\ call.fps = vr.aspect_frame_rate_min) => (ret = "True")
           /\ (call.fps = vr.aspect_frame_rate_max) => (ret = "False")

C9_Witness ==
    /\ call.op = "valid_frame_rate"
    /\ vr.aspect_frame_rate_min = 421
    /\ vr.aspect_frame_rate_max = 600
    /\ call.fps = 600
    /\ ret = "False"

\* C10: manual_capture hands the handle's capture call the output and the
\* very values the caller gave for format, use_video_port, resize,
\* splitter_port, bayer and each extra keyed option.
C10_PassThrough ==
    (call.op = "manual_capture")
        => handle_calls =
             <<[m |-> "capture", output |-> call.output,
                format |-> call.format,
                use_video_port |-> call.use_video_port,
                resize |-> call.resize,
                splitter_port |-> call.splitter_port,
                bayer |-> call.bayer, options |-> call.options]>>

====
